---- MODULE Spec2Model ----
(***************************************************************************)
(* A model of the concurrent cache layer of wedge:                         *)
(*   - safeMap (src/safemap.go): a map owned by one worker goroutine that  *)
(*     is reached through an unbuffered job channel;                       *)
(*   - getResponse (src/server.go) and makeurl (src/urls.go): the per      *)
(*     route time-windowed cache built on it.                              *)
(* Goroutines are processes; an unbuffered channel operation is a          *)
(* rendezvous of a blocked sender with a receiver.                         *)
(***************************************************************************)
EXTENDS Integers, Sequences, FiniteSets, TLC

(***************************************************************************)
(* Bounds of the model.                                                    *)
(***************************************************************************)
NumClients == 2      \* goroutines that call into a safeMap
MaxCalls == 3        \* safeMap method calls issued in one run (SpecMap)
NumKeys == 2         \* keys used by the callers of SpecMap
MaxVal == 1          \* values used by the callers of SpecMap: 0 (nil) .. MaxVal

MaxReqs == 3         \* requests served in one run when requests may overlap (SpecCache)
MaxSeqReqs == 4      \* requests served in one run when they come one at a time
NumPaths == 3        \* request paths (SpecCache)
MaxFailures == 1     \* handler invocations that return a failure status in one run

Clients == 1..NumClients
Keys == 1..NumKeys
Nil == 0             \* Go's nil interface value
Values == Nil..MaxVal

(***************************************************************************)
(* src/safemap.go: the job codes.                                          *)
(***************************************************************************)
insert == 0
remove == 1
find == 2
finish == 3
do == 4

\* The caller-supplied functions handed to Do: the read-increment-write of
\* incrementStats on key k, written <<"incr", k>>, a function that panics, and
\* a function that calls a method of the safeMap it was handed to.
Updaters == {<<"incr", k>> : k \in Keys} \cup {<<"panics", 0>>, <<"nested", 0>>}
NoFn == <<"nil", 0>>

NoJob == [jobType |-> -1, key |-> 0, value |-> Nil, return_channel |-> 0, updater |-> NoFn]
NoData == [value |-> Nil, success |-> FALSE]

VARIABLES
  \* ---- safeMap and its worker goroutine
  safe,        \* m.safe: the mapping, a function whose DOMAIN is the set of present keys
  closed,      \* m.jobchannel has been closed
  wpc,         \* the worker: "recv" | "exec" | "exited" | "panicked"
               \* | "nested" (inside job.updater, blocked in the send of a method)
  wjob,        \* the job the worker has dequeued
  \* ---- a goroutine inside a safeMap method
  call,        \* "none" | "send" (blocked in m.jobchannel <- &newJob)
               \* | "recv" (blocked in <-newJob.return_channel) | "ret" | "panicked"
  newJob,      \* the job the method built
  rd,          \* the returnData received on return_channel
  method,      \* the method being called
  ret,         \* the tuple of values the last completed method returned
  \* ---- history of the run (not program state)
  calls,       \* number of method calls issued by callers
  hist,        \* the jobs in the order the worker executed them
  stable,      \* stable[k]: <<v>> when Insert(k, v) returned, no call that touches k
               \* was in flight with it, and none was issued since
  expect,      \* expect[c]: stable[k] when c issued Find(k), <<v>> when c issued
               \* Insert(k, v) with no call on k in flight; <<>> once disturbed
  finished,    \* a Finish has returned
  afterClose,  \* afterClose[c]: c's current call was issued after a Finish returned
  openAtIssue, \* openAtIssue[c]: m.jobchannel was open when c issued its current call
  handed,      \* <<m.safe>> as Finish of src/unnamed/part_000 handed it back, <<>> before
  prior,       \* prior[c]: the places in hist of the calls that had returned when c
               \* issued its current call
  \* ---- the routes (url values) and the requests in ServeHTTP / getResponse
  routes,      \* App.routes: routes[r] is the cache_duration of route r
  nSpawned,    \* nSpawned[r]: goroutines makeurl started to seed route.timeout, not yet sending
  nReady,      \* nReady[r]: goroutines blocked in route.timeout <- true
  nTimers,     \* nTimers[r]: goroutines asleep in <-time.After(d * TIMEOUT)
  pc,          \* pc[c]: where the request goroutine c is in getResponse
  path,        \* path[c]: req.URL.Path
  resp,        \* resp[c]: the local resp
  status,      \* status[c]: the local status (err in the first case of the select)
  ok,          \* ok[c]: the local ok of the type assertion on Find's result
  serial,      \* the clients send a request only when the one before is answered
  \* ---- history of the requests (not program state)
  reqs,        \* requests started
  started,     \* started[p]: requests started for path p
  prods,       \* prods[p]: handler invocations for requests with path p
  fails,       \* handler invocations that returned a failure status
  epoch,       \* epoch[r]: times a sender became ready on route.timeout
  branch,      \* branch[c]: "plain" | "stale" | "fresh", the way c's request took
  inv,         \* inv[c]: the handler invocation c's request made (for its path), 0 if none
  tok,         \* tok[c]: epoch of the route when c's request reached the select
  seen,        \* seen[c]: the body cached for the path when c's request started, 0 if none
  lastHit      \* lastHit[p]: body of the last request of p answered without the handler

mapvars == <<safe, closed, wpc, wjob, call, newJob, rd, method, ret>>
histvars == <<calls, hist, stable, expect, finished, afterClose, openAtIssue, handed, prior>>
routevars == <<routes, serial, nSpawned, nReady, nTimers>>
reqvars == <<pc, path, resp, status, ok>>
reqhist == <<reqs, started, prods, fails, epoch, branch, inv, tok, seen, lastHit>>
cachevars == <<routevars, reqvars, reqhist>>
vars == <<mapvars, histvars, cachevars>>

(***************************************************************************)
(* Operations on m.safe as the worker performs them.                       *)
(***************************************************************************)
\* A store that keeps the entry a key already has
MapStoreKeepsOld(m, k, v) == [x \in DOMAIN m \cup {k} |-> IF x \in DOMAIN m THEN m[x] ELSE v]

\* A store that keeps no entry but the new one
MapStoreAlone(m, k, v) == [x \in {k} |-> v]

\* m.safe[job.key] = job.value
MapStore(m, k, v) == [x \in DOMAIN m \cup {k} |-> IF x = k THEN v ELSE m[x]]

\* A delete that drops every entry
MapDeleteAll(m, k) == [x \in {y \in DOMAIN m : y = k /\ y # k} |-> m[x]]

\* delete(m.safe, job.key)
MapDelete(m, k) == [x \in DOMAIN m \ {k} |-> m[x]]

\* A lookup that finds no key
MapLookupMisses(m, k) == [value |-> Nil, success |-> k \in DOMAIN m /\ k \notin DOMAIN m]

\* val, ok := m.safe[job.key]
MapLookup(m, k) == IF k \in DOMAIN m THEN [value |-> m[k], success |-> TRUE]
                   ELSE [value |-> Nil, success |-> FALSE]

\* A non-nil value of the model stands for a Go int in val.(int)
IsInt(v) == v # Nil

\* An increment that writes back a count read before the other increments
IncrementUpdaterStale(m, k) == MapStore(m, k, 1)

\* The closure incrementStats passes to Do (src/server.go:105-117)
IncrementUpdater(m, k) ==
  IF k \in DOMAIN m
    THEN IF IsInt(m[k]) THEN MapStore(m, k, m[k] + 1) ELSE m
    ELSE MapStore(m, k, 1)

EmptyMap == [x \in {} |-> Nil]

(***************************************************************************)
(* The routes of the App, as registered with makeurl (src/urls.go).        *)
(***************************************************************************)
\* The durations the routes of an App are registered with: a CacheURL with a
\* positive duration beside a route cached forever (StaticFiles, Favicon:
\* duration -1), or beside a plain URL (duration 0).
DeclaredTables == {<<1, -1>>, <<1, 0>>}
Routes == DOMAIN routes
Paths == 1..NumPaths

\* A dispatch that serves every request with the signal of the first route
RouteOfFirst(p) == 1 + 0 * p

\* ServeHTTP: the first route whose pattern matches the request path
RouteOf(p) == ((p - 1) % Len(routes)) + 1

\* 30 * 12 * 30 * time.Hour, in seconds
Forever == 30 * 12 * 30 * 3600

\* makeurl: if duration < 0 { duration = 30 * 12 * 30 * time.Hour }
makeurl(duration) == IF duration < 0 THEN Forever ELSE duration

\* A route that is given the duration 1 when it was registered with none
cache_durationDefaulted(r) == IF routes[r] = 0 THEN 1 ELSE routes[r]

cache_duration(r) == routes[r]

\* A makeurl that seeds the signal of every route
SeededAlways(d) == d >= 0

\* makeurl: if duration > 0 { go func() { timeoutchan <- true }() }
Seeded(d) == d > 0

\* An int64 as its eight bytes, least significant first (two's complement)
Byte(n, i) == IF i > 4 THEN 0 ELSE (n \div (256 ^ (i - 1))) % 256
Int64(n) == [i \in 1..8 |-> Byte(n, i)]

RECURSIVE ColSum(_, _, _, _)
ColSum(a, b, k, i) ==
  IF i > k THEN 0 ELSE a[i] * b[k + 1 - i] + ColSum(a, b, k, i + 1)

RECURSIVE MulFrom(_, _, _, _)
MulFrom(a, b, k, carry) ==
  IF k > 8 THEN <<>>
  ELSE LET t == ColSum(a, b, k, 1) + carry
       IN <<t % 256>> \o MulFrom(a, b, k + 1, t \div 256)

\* a * b on int64: the low 64 bits of the product
Mul64(a, b) == MulFrom(a, b, 1, 0)

RECURSIVE DivFrom(_, _, _, _)
DivFrom(a, m, i, rem) ==
  IF i = 0 THEN <<>>
  ELSE LET t == rem * 256 + a[i]
       IN DivFrom(a, m, i - 1, t % m) \o <<t \div m>>

\* a / m for a non-negative int64 a and a small m
Div64(a, m) == DivFrom(a, m, 8, 0)

Negative64(a) == a[8] >= 128

\* The int64 as a number of the model; beyond its integers, the largest one
LongestDelay == 2147483647
ToInt(a) ==
  IF a[4] < 128 /\ \A i \in 5..8 : a[i] = 0
    THEN a[1] + 256 * a[2] + 65536 * a[3] + 16777216 * a[4]
    ELSE LongestDelay

\* time.Second, in nanoseconds; var TIMEOUT = time.Second
Second == 1000000000
TIMEOUT == Second

\* time.After(x): x nanoseconds in whole seconds; a negative x fires at once
After(x) == IF Negative64(x) THEN 0 ELSE ToInt(Div64(Div64(Div64(x, 1000), 1000), 1000))

\* d * TIMEOUT for d = 30 * 12 * 30 * time.Hour wraps around in int64:
\* 38880000000000000 * 1000000000 mod 2^64 = 430027188864024576 ns, which is
\* 430027188 s (13.6 years)
WrappedForever == After(Mul64(Mul64(Int64(Forever), Int64(Second)), Int64(TIMEOUT)))

\* A delay that is out of reach for every duration
TimerDelayOverflows(d) == LongestDelay + 0 * d

\* time.After(d * TIMEOUT): the delay in seconds
TimerDelay(d) == IF d = Forever THEN WrappedForever ELSE d

\* The time a run of the model covers, in seconds (fifteen years)
Horizon == 473040000

StatusOK == 200
StatusNotFound == 404
StatusError == 500
Statuses == {StatusOK, StatusNotFound, StatusError}

\* A type assertion that never succeeds
IsStringNever(v) == v # v

\* resp, ok := App.cache_map.Find(req.URL.Path).(string)
IsString(v) == v # Nil

(***************************************************************************)
(* The state after NewAppServer, NewSafeMap and makeurl.                   *)
(***************************************************************************)
InitWith(tables, modes) ==
  /\ safe = EmptyMap
  /\ closed = FALSE
  /\ wpc = "recv"
  /\ wjob = NoJob
  /\ call = [c \in Clients |-> "none"]
  /\ newJob = [c \in Clients |-> NoJob]
  /\ rd = [c \in Clients |-> NoData]
  /\ method = [c \in Clients |-> "none"]
  /\ ret = [c \in Clients |-> <<>>]
  /\ calls = 0
  /\ hist = <<>>
  /\ stable = [k \in Keys |-> <<>>]
  /\ expect = [c \in Clients |-> <<>>]
  /\ finished = FALSE
  /\ afterClose = [c \in Clients |-> FALSE]
  /\ openAtIssue = [c \in Clients |-> FALSE]
  /\ handed = <<>>
  /\ prior = [c \in Clients |-> {}]
  /\ routes \in {[r \in DOMAIN t |-> makeurl(t[r])] : t \in tables}
  /\ nSpawned = [r \in Routes |-> IF Seeded(routes[r]) THEN 1 ELSE 0]
  /\ nReady = [r \in Routes |-> 0]
  /\ nTimers = [r \in Routes |-> 0]
  /\ pc = [c \in Clients |-> "idle"]
  /\ path = [c \in Clients |-> 0]
  /\ resp = [c \in Clients |-> Nil]
  /\ status = [c \in Clients |-> 0]
  /\ ok = [c \in Clients |-> FALSE]
  /\ serial \in modes
  /\ reqs = 0
  /\ started = [p \in Paths |-> 0]
  /\ prods = [p \in Paths |-> 0]
  /\ fails = 0
  /\ epoch = [r \in Routes |-> 0]
  /\ branch = [c \in Clients |-> "none"]
  /\ inv = [c \in Clients |-> 0]
  /\ tok = [c \in Clients |-> 0]
  /\ seen = [c \in Clients |-> 0]
  /\ lastHit = [p \in Paths |-> 0]

\* An App with the routes of one of the tables
Init == InitWith(DeclaredTables, BOOLEAN)

\* A safeMap used on its own: no routes
InitMap == InitWith({<<>>}, {FALSE})

(***************************************************************************)
(* The worker goroutine of NewSafeMap.                                     *)
(***************************************************************************)
\* A map served by more goroutines than one: a job is received while the
\* function of a do job is still running
ReceivingWhileNested == wpc \in {"recv", "nested"}

\* The one worker goroutine is at `for job := range jobs`
Receiving == wpc = "recv"

\* for job := range jobs: the rendezvous with a goroutine blocked in
\* m.jobchannel <- &newJob
WorkerRecv(c) ==
  /\ Receiving
  /\ ~closed
  /\ call[c] = "send"
  /\ wjob' = newJob[c]
  /\ wpc' = "exec"
  /\ call' = [call EXCEPT ![c] = "recv"]
  /\ UNCHANGED <<safe, closed, newJob, rd, method, ret, histvars, cachevars>>

\* A finish case that also empties the mapping
JobEffectClears(m, job) ==
  CASE job.jobType = insert -> MapStore(m, job.key, job.value)
    [] job.jobType = remove -> MapDelete(m, job.key)
    [] job.jobType = do /\ job.updater[1] = "incr" -> IncrementUpdater(m, job.updater[2])
    [] job.jobType = finish -> EmptyMap
    [] OTHER -> m

\* The effect of the case of job.jobType on the mapping
JobEffect(m, job) ==
  CASE job.jobType = insert -> MapStore(m, job.key, job.value)
    [] job.jobType = remove -> MapDelete(m, job.key)
    [] job.jobType = do /\ job.updater[1] = "incr" -> IncrementUpdater(m, job.updater[2])
    [] OTHER -> m

\* An insert case that reports failure
JobReplyInsertFails(m, job) ==
  CASE job.jobType = find -> MapLookup(m, job.key)
    [] job.jobType = do -> [value |-> 1, success |-> TRUE]
    [] job.jobType = insert -> [value |-> Nil, success |-> FALSE]
    [] OTHER -> [value |-> Nil, success |-> TRUE]

\* The returnData the case of job.jobType sends on job.return_channel
JobReply(m, job) ==
  CASE job.jobType = find -> MapLookup(m, job.key)
    [] job.jobType = do -> [value |-> 1, success |-> TRUE]   \* the closure returns true
    [] OTHER -> [value |-> Nil, success |-> TRUE]

\* The entry of the history for a job the worker executed
HistEntry(job, reply) ==
  [job |-> job, reply |-> reply, returned |-> FALSE, ret |-> <<>>]

\* The history holds the jobs of the callers, not those of the requests
Logged(job) == pc[job.return_channel] = "idle"

\* switch job.jobType: the body of one case, with its send on return_channel;
\* the caller is blocked in its receive, so the send is a rendezvous with it
WorkerExec ==
  /\ wpc = "exec"
  /\ IF wjob.jobType = do /\ wjob.updater[1] = "panics"
       THEN \* job.updater panics on the worker goroutine; nothing recovers it
            /\ wpc' = "panicked"
            /\ UNCHANGED <<safe, closed, rd, call, hist>>
       ELSE IF wjob.jobType = do /\ wjob.updater[1] = "nested"
       THEN \* job.updater calls Insert, Find, Delete, Finish or Do of m: each starts
            \* with m.jobchannel <- &newJob, on the goroutine that is the receiver
            /\ wpc' = "nested"
            /\ UNCHANGED <<safe, closed, rd, call, hist>>
       ELSE /\ safe' = JobEffect(safe, wjob)
            /\ closed' = (closed \/ wjob.jobType = finish)
            /\ call[wjob.return_channel] = "recv"
            /\ rd' = [rd EXCEPT ![wjob.return_channel] = JobReply(safe, wjob)]
            /\ call' = [call EXCEPT ![wjob.return_channel] = "ret"]
            /\ wpc' = "recv"
            /\ hist' = IF Logged(wjob)
                         THEN Append(hist, HistEntry(wjob, JobReply(safe, wjob)))
                         ELSE hist
  /\ UNCHANGED <<wjob, newJob, method, ret, calls, stable, expect, finished,
                 afterClose, openAtIssue, handed, prior, cachevars>>

\* range over a closed channel ends the loop and the goroutine
WorkerExit ==
  /\ Receiving
  /\ closed
  /\ wpc' = "exited"
  /\ UNCHANGED <<safe, closed, wjob, call, newJob, rd, method, ret, histvars, cachevars>>

\* A panic of the worker goroutine is not recovered: the process ends
Running == wpc # "panicked"

Worker ==
  /\ Running
  /\ \/ \E c \in Clients : WorkerRecv(c)
     \/ WorkerExec
     \/ WorkerExit

\* m.jobchannel <- &newJob on a closed channel panics in the sending goroutine
SendPanics(c) ==
  /\ Running
  /\ call[c] = "send"
  /\ closed
  /\ call' = [call EXCEPT ![c] = "panicked"]
  /\ UNCHANGED <<safe, closed, wpc, wjob, newJob, rd, method, ret, histvars, cachevars>>

(***************************************************************************)
(* The methods of safeMap.                                                 *)
(***************************************************************************)
\* An Insert under one fixed key, whatever key it was called with
InsertJobFirstKey(c, k, v) ==
  [jobType |-> insert, key |-> 1 + 0 * k, value |-> v, return_channel |-> c, updater |-> NoFn]

InsertJob(c, k, v) ==
  [jobType |-> insert, key |-> k, value |-> v, return_channel |-> c, updater |-> NoFn]

FindJob(c, k) ==
  [jobType |-> find, key |-> k, value |-> Nil, return_channel |-> c, updater |-> NoFn]

DeleteJob(c, k) ==
  [jobType |-> remove, key |-> k, value |-> Nil, return_channel |-> c, updater |-> NoFn]

FinishJob(c) ==
  [jobType |-> finish, key |-> 0, value |-> Nil, return_channel |-> c, updater |-> NoFn]

DoJob(c, fn) ==
  [jobType |-> do, key |-> 0, value |-> Nil, return_channel |-> c, updater |-> fn]

\* newJob := job{...}; m.jobchannel <- &newJob: the goroutine blocks in the send
SendJob(c, name, job) ==
  /\ call[c] = "none"
  /\ newJob' = [newJob EXCEPT ![c] = job]
  /\ method' = [method EXCEPT ![c] = name]
  /\ call' = [call EXCEPT ![c] = "send"]

\* What each method hands to its caller from the returnData it received
MethodResult(name, data) ==
  CASE name = "Find" -> <<data.value>>
    [] name = "Do" -> <<data.value, data.success>>
    [] OTHER -> <<data.success>>

(***************************************************************************)
(* SpecMap: goroutines that call the methods of one safeMap.               *)
(***************************************************************************)
Mutates(job) == job.jobType \in {insert, remove, do, finish}

Touches(job, k) == Mutates(job) /\ (job.jobType \in {do, finish} \/ job.key = k)

OthersTouching(c, k) ==
  \E d \in Clients \ {c} : call[d] \in {"send", "recv", "ret"} /\ Touches(newJob[d], k)

\* A caller issues a method call
Issue(c, name, job) ==
  /\ Running
  /\ pc[c] = "idle"
  /\ calls < MaxCalls
  /\ SendJob(c, name, job)
  /\ calls' = calls + 1
  /\ afterClose' = [afterClose EXCEPT ![c] = finished]
  /\ openAtIssue' = [openAtIssue EXCEPT ![c] = ~closed]
  /\ prior' = [prior EXCEPT ![c] = {i \in 1..Len(hist) : hist[i].returned}]
  /\ stable' = [k \in Keys |-> IF Touches(job, k) THEN <<>> ELSE stable[k]]
  /\ expect' = [d \in Clients |->
                  IF d = c
                    THEN (IF job.jobType = find THEN stable[job.key]
                          ELSE IF job.jobType = insert /\ ~OthersTouching(c, job.key)
                            THEN <<job.value>>
                          ELSE <<>>)
                    ELSE IF Touches(job, newJob[d].key) THEN <<>> ELSE expect[d]]
  /\ UNCHANGED <<safe, closed, wpc, wjob, rd, ret, hist, finished, handed, cachevars>>

Insert(c, k, v) == Issue(c, "Insert", InsertJob(c, k, v))

Find(c, k) == Issue(c, "Find", FindJob(c, k))

Delete(c, k) == Issue(c, "Delete", DeleteJob(c, k))

Finish(c) == Issue(c, "Finish", FinishJob(c))

Do(c, fn) == Issue(c, "Do", DoJob(c, fn))

\* Position in hist of the job of c that the worker executed last
LastExec(c) ==
  CHOOSE i \in 1..Len(hist) :
    /\ hist[i].job.return_channel = c
    /\ \A j \in (i+1)..Len(hist) : hist[j].job.return_channel # c

\* return (<-newJob.return_channel).success, and its variants
MethodReturn(c) ==
  /\ Running
  /\ pc[c] = "idle"
  /\ call[c] = "ret"
  /\ ret' = [ret EXCEPT ![c] = MethodResult(method[c], rd[c])]
  /\ call' = [call EXCEPT ![c] = "none"]
  /\ hist' = [hist EXCEPT ![LastExec(c)].returned = TRUE,
                          ![LastExec(c)].ret = MethodResult(method[c], rd[c])]
  /\ finished' = (finished \/ method[c] = "Finish")
  \* return (<-newJob.return_channel).success, m.safe
  /\ handed' = IF method[c] = "Finish" THEN <<safe>> ELSE handed
  /\ stable' = [k \in Keys |->
                  IF method[c] = "Insert" /\ k = newJob[c].key /\ expect[c] # <<>>
                    THEN expect[c] ELSE stable[k]]
  /\ UNCHANGED <<safe, closed, wpc, wjob, newJob, rd, method, calls, expect,
                 afterClose, openAtIssue, prior, cachevars>>

NextMap ==
  \/ Worker
  \/ \E c \in Clients : SendPanics(c)
  \/ \E c \in Clients, k \in Keys, v \in Values : Insert(c, k, v)
  \/ \E c \in Clients, k \in Keys : Find(c, k)
  \/ \E c \in Clients, k \in Keys : Delete(c, k)
  \/ \E c \in Clients : Finish(c)
  \/ \E c \in Clients, fn \in Updaters : Do(c, fn)
  \/ \E c \in Clients : MethodReturn(c)

SpecMap == InitMap /\ [][NextMap]_vars

(***************************************************************************)
(* SpecCache: requests served by ServeHTTP / getResponse (src/server.go),  *)
(* with cache_map the safeMap above.                                       *)
(***************************************************************************)
InGetResponse(c) == pc[c] \notin {"idle", "panicked"}

\* The string a handler returns is identified by the invocation that returned
\* it (the n-th for its path) and the status returned with it
Body(n, s) == n * 1000 + s
BodyStatus(b) == b % 1000
BodyId(b) == b \div 1000

\* A signal that stays readable once it was made ready (a closed channel)
SignalLatched(r) == epoch[r] > 0

\* select: case <-route.timeout can proceed when a goroutine is blocked in
\* its send on the unbuffered channel, and then the select takes it
SelectReceives(r) == nReady[r] > 0

Cached(p) == IF p \in DOMAIN safe THEN safe[p] ELSE 0

\* ServeHTTP: a request for path p arrives and matches a route; it is served
\* on goroutine c (the first free one)
StartRequest(c, p) ==
  /\ Running
  /\ pc[c] = "idle"
  /\ \A d \in Clients : d < c => pc[d] # "idle"
  /\ serial => \A d \in Clients : pc[d] = "idle"
  /\ reqs < (IF serial THEN MaxSeqReqs ELSE MaxReqs)
  /\ reqs' = reqs + 1
  /\ started' = [started EXCEPT ![p] = @ + 1]
  /\ path' = [path EXCEPT ![c] = p]
  /\ seen' = [seen EXCEPT ![c] = Cached(p)]
  /\ tok' = [tok EXCEPT ![c] = epoch[RouteOf(p)]]

\* route.handler(req) is called: the next invocation for the path
Invoke(c, p) ==
  /\ prods' = [prods EXCEPT ![p] = @ + 1]
  /\ inv' = [inv EXCEPT ![c] = prods[p] + 1]

\* route.handler(req) returns the status s
Returns(s) ==
  /\ s = StatusOK \/ fails < MaxFailures
  /\ fails' = IF s = StatusOK THEN fails ELSE fails + 1

\* if route.cache_duration == 0 { return route.handler(req) }: the call
GetResponsePlain(c, p) ==
  /\ StartRequest(c, p)
  /\ cache_duration(RouteOf(p)) = 0
  /\ Invoke(c, p)
  /\ pc' = [pc EXCEPT ![c] = "plain_handler"]
  /\ branch' = [branch EXCEPT ![c] = "plain"]
  /\ UNCHANGED <<mapvars, histvars, routevars, resp, status, ok, fails, epoch, lastHit>>

\* ... and the return of the handler
PlainReturn(c, s) ==
  /\ Returns(s)
  /\ pc[c] = "plain_handler"
  /\ resp' = [resp EXCEPT ![c] = Body(inv[c], s)]
  /\ status' = [status EXCEPT ![c] = s]
  /\ pc' = [pc EXCEPT ![c] = "done"]
  /\ UNCHANGED <<mapvars, histvars, routevars, path, ok, reqs, started, prods,
                 epoch, branch, inv, tok, seen, lastHit>>

\* case <-route.timeout: the receive, go func(d, ch) {...}, and the call of
\* route.handler(req)
GetResponseStale(c, p) ==
  /\ StartRequest(c, p)
  /\ cache_duration(RouteOf(p)) # 0
  /\ SelectReceives(RouteOf(p))
  /\ nReady' = [nReady EXCEPT ![RouteOf(p)] = @ - 1]
  /\ nTimers' = [nTimers EXCEPT ![RouteOf(p)] = @ + 1]
  /\ Invoke(c, p)
  /\ pc' = [pc EXCEPT ![c] = "stale_handler"]
  /\ branch' = [branch EXCEPT ![c] = "stale"]
  /\ UNCHANGED <<mapvars, histvars, routes, serial, nSpawned, resp, status, ok,
                 fails, epoch, lastHit>>

\* resp, err := route.handler(req) returns; App.cache_map.Insert(req.URL.Path, resp)
StaleHandlerReturn(c, s) ==
  /\ Returns(s)
  /\ pc[c] = "stale_handler"
  /\ resp' = [resp EXCEPT ![c] = Body(inv[c], s)]
  /\ status' = [status EXCEPT ![c] = s]
  /\ SendJob(c, "Insert", InsertJob(c, path[c], Body(inv[c], s)))
  /\ pc' = [pc EXCEPT ![c] = "stale_insert"]
  /\ UNCHANGED <<safe, closed, wpc, wjob, rd, ret, histvars, routevars, path, ok,
                 reqs, started, prods, epoch, branch, inv, tok, seen, lastHit>>

\* default: App.cache_map.Find(req.URL.Path)
GetResponseFresh(c, p) ==
  /\ StartRequest(c, p)
  /\ cache_duration(RouteOf(p)) # 0
  /\ ~SelectReceives(RouteOf(p))
  /\ SendJob(c, "Find", FindJob(c, p))
  /\ pc' = [pc EXCEPT ![c] = "fresh_find"]
  /\ branch' = [branch EXCEPT ![c] = "fresh"]
  /\ UNCHANGED <<safe, closed, wpc, wjob, rd, ret, histvars, routevars, resp,
                 status, ok, prods, fails, epoch, inv, lastHit>>

\* A default case that stores the body of a successful invocation only
FreshInsertsOnSuccess(s) == s = StatusOK

\* if status != 404 { Insert } in the default case
FreshInserts(s) == s # StatusNotFound

\* resp, ok := Find(...).(string); var status int; if !ok { the handler is
\* called }; otherwise status stays 0 and the Insert follows
FreshFindReturn(c) ==
  /\ pc[c] = "fresh_find"
  /\ call[c] = "ret"
  /\ LET v == MethodResult(method[c], rd[c])[1]
     IN IF IsString(v)
          THEN /\ resp' = [resp EXCEPT ![c] = v]
               /\ ok' = [ok EXCEPT ![c] = TRUE]
               /\ newJob' = [newJob EXCEPT ![c] = InsertJob(c, path[c], v)]
               /\ method' = [method EXCEPT ![c] = "Insert"]
               /\ call' = [call EXCEPT ![c] = "send"]
               /\ pc' = [pc EXCEPT ![c] = "fresh_insert"]
               /\ UNCHANGED <<inv, prods>>
          ELSE /\ call' = [call EXCEPT ![c] = "none"]
               /\ pc' = [pc EXCEPT ![c] = "fresh_handler"]
               /\ Invoke(c, path[c])
               /\ UNCHANGED <<newJob, method, resp, ok>>
  /\ UNCHANGED <<safe, closed, wpc, wjob, rd, ret, histvars, routevars, path,
                 status, reqs, started, fails, epoch, branch, tok, seen, lastHit>>

\* resp, status = route.handler(req) returns in the default case
FreshHandlerReturn(c, s) ==
  /\ Returns(s)
  /\ pc[c] = "fresh_handler"
  /\ resp' = [resp EXCEPT ![c] = Body(inv[c], s)]
  /\ status' = [status EXCEPT ![c] = s]
  /\ IF FreshInserts(s)
       THEN /\ SendJob(c, "Insert", InsertJob(c, path[c], Body(inv[c], s)))
            /\ pc' = [pc EXCEPT ![c] = "fresh_insert"]
       ELSE /\ pc' = [pc EXCEPT ![c] = "done"]
            /\ UNCHANGED <<newJob, method, call>>
  /\ UNCHANGED <<safe, closed, wpc, wjob, rd, ret, histvars, routevars, path, ok,
                 reqs, started, prods, epoch, branch, inv, tok, seen, lastHit>>

\* if !App.cache_map.Insert(...) { panic(...) }; return resp, status
InsertReturn(c) ==
  /\ pc[c] \in {"stale_insert", "fresh_insert"}
  /\ call[c] = "ret"
  /\ call' = [call EXCEPT ![c] = "none"]
  /\ pc' = [pc EXCEPT ![c] =
              IF MethodResult(method[c], rd[c])[1] THEN "done" ELSE "panicked"]
  /\ UNCHANGED <<safe, closed, wpc, wjob, newJob, rd, method, ret, histvars,
                 routevars, path, resp, status, ok, reqhist>>

\* ServeHTTP has written the response: the request goroutine ends
ServeHTTPReturns(c) ==
  /\ pc[c] = "done"
  /\ pc' = [pc EXCEPT ![c] = "idle"]
  /\ path' = [path EXCEPT ![c] = 0]
  /\ resp' = [resp EXCEPT ![c] = Nil]
  /\ status' = [status EXCEPT ![c] = 0]
  /\ ok' = [ok EXCEPT ![c] = FALSE]
  /\ branch' = [branch EXCEPT ![c] = "none"]
  /\ inv' = [inv EXCEPT ![c] = 0]
  /\ tok' = [tok EXCEPT ![c] = 0]
  /\ seen' = [seen EXCEPT ![c] = 0]
  /\ lastHit' = IF inv[c] = 0 THEN [lastHit EXCEPT ![path[c]] = resp[c]] ELSE lastHit
  /\ newJob' = [newJob EXCEPT ![c] = NoJob]
  /\ rd' = [rd EXCEPT ![c] = NoData]
  /\ method' = [method EXCEPT ![c] = "none"]
  /\ UNCHANGED <<safe, closed, wpc, wjob, call, ret, histvars, routevars,
                 reqs, started, prods, fails, epoch>>

\* <-f returns in the goroutine started by the first case of the select, and
\* the goroutine it starts, go func() { ch <- true }(), blocks in its send
TimerFires(r) ==
  /\ nTimers[r] > 0
  /\ TimerDelay(cache_duration(r)) <= Horizon
  /\ nTimers' = [nTimers EXCEPT ![r] = @ - 1]
  /\ nReady' = [nReady EXCEPT ![r] = @ + 1]
  /\ epoch' = [epoch EXCEPT ![r] = @ + 1]
  /\ UNCHANGED <<mapvars, histvars, routes, serial, nSpawned, reqvars, reqs, started,
                 prods, fails, branch, inv, tok, seen, lastHit>>

\* The goroutine makeurl started to seed the signal reaches its send and blocks
SenderBlocks(r) ==
  /\ nSpawned[r] > 0
  /\ nSpawned' = [nSpawned EXCEPT ![r] = @ - 1]
  /\ nReady' = [nReady EXCEPT ![r] = @ + 1]
  /\ epoch' = [epoch EXCEPT ![r] = @ + 1]
  /\ UNCHANGED <<mapvars, histvars, routes, serial, nTimers, reqvars, reqs, started,
                 prods, fails, branch, inv, tok, seen, lastHit>>

NextCache ==
  \/ Worker
  \/ \E c \in Clients, p \in Paths : GetResponsePlain(c, p)
  \/ \E c \in Clients, s \in Statuses : PlainReturn(c, s)
  \/ \E c \in Clients, p \in Paths : GetResponseStale(c, p)
  \/ \E c \in Clients, s \in Statuses : StaleHandlerReturn(c, s)
  \/ \E c \in Clients, p \in Paths : GetResponseFresh(c, p)
  \/ \E c \in Clients : FreshFindReturn(c)
  \/ \E c \in Clients, s \in Statuses : FreshHandlerReturn(c, s)
  \/ \E c \in Clients : InsertReturn(c)
  \/ \E c \in Clients : ServeHTTPReturns(c)
  \/ \E r \in Routes : TimerFires(r)
  \/ \E r \in Routes : SenderBlocks(r)

SpecCache == Init /\ [][NextCache]_vars

\* The Go runtime runs every goroutine that can run: a timer goroutine whose
\* delay has passed is woken and reaches its send, and the goroutines of the
\* worker and of the requests go on when they can.
TimerFairness == \A p \in Paths : WF_vars(TimerFires(RouteOf(p)))

\* An App with a CacheURL route and a plain URL route
InitFair == InitWith({<<1, 0>>}, BOOLEAN)

SpecCacheFair == InitFair /\ [][NextCache]_vars /\ TimerFairness

\* The steps of the request goroutine c after it has entered getResponse
RequestStep(c) ==
  \/ \E s \in Statuses : PlainReturn(c, s)
  \/ \E s \in Statuses : StaleHandlerReturn(c, s)
  \/ FreshFindReturn(c)
  \/ \E s \in Statuses : FreshHandlerReturn(c, s)
  \/ InsertReturn(c)
  \/ ServeHTTPReturns(c)

\* The request goroutines and the worker run when they can and the handlers
\* return; nothing is assumed of the timers: a timer may sleep for ever.
RequestFairness ==
  /\ WF_vars(WorkerExec)
  /\ \A c \in Clients : WF_vars(WorkerRecv(c)) /\ WF_vars(RequestStep(c))

SpecCacheRequests == InitFair /\ [][NextCache]_vars /\ RequestFairness

(***************************************************************************)
(* The sequential map the safeMap is compared with: one operation at a     *)
(* time, each applied whole.                                               *)
(***************************************************************************)
SeqApply(m, job) ==
  IF job.jobType = insert
    THEN [x \in DOMAIN m \cup {job.key} |-> IF x = job.key THEN job.value ELSE m[x]]
  ELSE IF job.jobType = remove
    THEN [x \in DOMAIN m \ {job.key} |-> m[x]]
  ELSE IF job.jobType = do /\ job.updater[1] = "incr"
    THEN LET k == job.updater[2]
         IN [x \in DOMAIN m \cup {k} |->
               IF x # k THEN m[x]
               ELSE IF k \notin DOMAIN m THEN 1
               ELSE IF m[k] = Nil THEN Nil ELSE m[k] + 1]
  ELSE m

SeqResult(m, job) ==
  IF job.jobType = find
    THEN <<IF job.key \in DOMAIN m THEN m[job.key] ELSE Nil>>
  ELSE IF job.jobType = do THEN <<1, TRUE>>
  ELSE <<TRUE>>

RECURSIVE Replay(_)
Replay(n) == IF n = 0 THEN EmptyMap ELSE SeqApply(Replay(n - 1), hist[n].job)

InFlight == {c \in Clients : call[c] # "none"}

\* C1: serializability of the actor map. The calls that have returned, and
\* the mapping, are those of the sequential execution of the calls in the
\* order hist: every returned call is in hist once, its result is the one the
\* sequential map gives at its place, and the mapping is the sequential one.
C1_Serializable ==
  /\ safe = Replay(Len(hist))
  /\ \A i \in 1..Len(hist) :
       hist[i].returned => hist[i].ret = SeqResult(Replay(i - 1), hist[i].job)
  /\ Cardinality({i \in 1..Len(hist) : hist[i].returned}) = calls - Cardinality(InFlight)

\* Two goroutines have had calls in flight together on one key, an Insert and a
\* Find that saw it, and both have returned.
C1_Witness ==
  \E i, j \in 1..Len(hist) :
    /\ i < j
    /\ hist[i].job.return_channel # hist[j].job.return_channel
    /\ hist[i].job.jobType = insert /\ hist[i].job.value # Nil
    /\ hist[j].job.jobType = find /\ hist[j].job.key = hist[i].job.key
    /\ hist[i].returned /\ hist[j].returned
    /\ hist[j].ret = <<hist[i].job.value>>
    /\ Len(hist) = MaxCalls

\* C2: Insert then Find round trip. A Find(k) issued after Insert(k, v)
\* returned, with no Insert, Delete, Do or Finish issued since, returns v with
\* found = true.
C2_InsertFindRoundTrip ==
  \A c \in Clients :
    (method[c] = "Find" /\ call[c] = "none" /\ expect[c] # <<>>)
      => ret[c] = <<expect[c][1], TRUE>>

\* C3: Find on an absent key returns found = false, so that its caller can tell
\* it from a Find on a key that is present: the two calls never return the same.
C3_FindTellsAbsent ==
  \A i, j \in 1..Len(hist) :
    ( /\ hist[i].job.jobType = find /\ hist[i].returned /\ ~hist[i].reply.success
      /\ hist[j].job.jobType = find /\ hist[j].returned /\ hist[j].reply.success )
      => hist[i].ret # hist[j].ret

\* C4: Close terminality. A call issued after Finish has returned does not
\* panic, and what it returns says success = false.
C4_CloseTerminal ==
  \A c \in Clients :
    afterClose[c] =>
      /\ call[c] # "panicked"
      /\ (call[c] = "none" => ret[c][Len(ret[c])] = FALSE)

\* C5: a panic of the function passed to Do is caught at the worker: the worker
\* keeps running and the caller of Do is answered.
C5_DoPanicCaught ==
  \A c \in Clients :
    (method[c] = "Do" /\ newJob[c].updater[1] = "panics" /\ call[c] = "recv")
      => wpc = "exec"

\* C13: double Close is safe: a Finish issued after a Finish has returned
\* does not panic, and it returns a success/failure value.
C13_DoubleCloseSafe ==
  \A c \in Clients :
    (method[c] = "Finish" /\ afterClose[c]) =>
      /\ call[c] # "panicked"
      /\ call[c] = "none" => ret[c] \in {<<TRUE>>, <<FALSE>>}

\* C14: Close with callers in flight: a caller that issued its operation while
\* the map was open, and whose job the worker had not dequeued when it ran the
\* finish case, gets a result: it does not panic.
C14_InFlightAnswered ==
  \A c \in Clients :
    (openAtIssue[c] /\ closed /\ newJob[c].jobType # finish) => call[c] # "panicked"

\* The worker runs the case of a job of type t and replies
WorkerRuns(t) == wpc = "exec" /\ wjob.jobType = t /\ wpc' = "recv"

\* C15: idempotent Delete: every Delete returns true; the remove case takes
\* the entry of its key out of the mapping and leaves every other entry as it
\* was, it leaves the mapping unchanged when the key is absent, and removing
\* the key once more from the result changes nothing.
C15_IdempotentDelete ==
  /\ [](\A c \in Clients :
          (method[c] = "Delete" /\ call[c] = "none" /\ pc[c] = "idle") => ret[c] = <<TRUE>>)
  /\ [][WorkerRuns(remove) =>
          /\ rd'[wjob.return_channel].success
          /\ DOMAIN safe' = DOMAIN safe \ {wjob.key}
          /\ \A x \in DOMAIN safe' : safe'[x] = safe[x]
          /\ wjob.key \notin DOMAIN safe => safe' = safe
          /\ MapDelete(safe', wjob.key) = safe']_vars

\* Insert(k, v), Delete(k), Delete(k): the first Delete removed the entry,
\* the second found k absent, both returned true, and the mapping is empty.
C15_Witness ==
  /\ Len(hist) = 3
  /\ hist[1].job.jobType = insert
  /\ hist[2].job.jobType = remove /\ hist[2].job.key = hist[1].job.key
  /\ hist[3].job.jobType = remove /\ hist[3].job.key = hist[1].job.key
  /\ hist[2].returned /\ hist[2].ret = <<TRUE>>
  /\ hist[3].returned /\ hist[3].ret = <<TRUE>>
  /\ safe = EmptyMap

\* The case of the job leaves the entry of key k as it is
Keeps(job, k) ==
  \/ job.jobType \in {find, finish}
  \/ job.jobType \in {insert, remove} /\ job.key # k
  \/ job.jobType = do /\ job.updater[1] = "incr" /\ job.updater[2] # k

\* C16: every Insert that returns returns true; the insert case creates the
\* entry of its key or overwrites it and leaves the other entries alone; and
\* the mapping holds for a key the value of the Insert the worker executed
\* last, as long as no later job changed the entry.
C16_InsertOverwrites ==
  /\ [](\A c \in Clients :
          (method[c] = "Insert" /\ call[c] = "none" /\ pc[c] = "idle") => ret[c] = <<TRUE>>)
  /\ [](\A i \in 1..Len(hist) :
          ( /\ hist[i].job.jobType = insert
            /\ \A j \in (i + 1)..Len(hist) : Keeps(hist[j].job, hist[i].job.key) )
            => /\ hist[i].job.key \in DOMAIN safe
               /\ safe[hist[i].job.key] = hist[i].job.value)
  /\ [][WorkerRuns(insert) =>
          /\ rd'[wjob.return_channel].success
          /\ DOMAIN safe' = DOMAIN safe \cup {wjob.key}
          /\ safe'[wjob.key] = wjob.value
          /\ \A x \in DOMAIN safe \ {wjob.key} : safe'[x] = safe[x]]_vars

\* Two goroutines inserted different values under one key; both returned
\* true and the mapping holds the value of the Insert executed second.
C16_Witness ==
  /\ Len(hist) >= 2
  /\ hist[1].job.jobType = insert /\ hist[2].job.jobType = insert
  /\ hist[1].job.key = hist[2].job.key
  /\ hist[1].job.value # hist[2].job.value
  /\ hist[1].job.return_channel # hist[2].job.return_channel
  /\ hist[1].returned /\ hist[1].ret = <<TRUE>>
  /\ hist[2].returned /\ hist[2].ret = <<TRUE>>
  /\ safe[hist[2].job.key] = hist[2].job.value

\* The job is the read-increment-write of incrementStats on key k
IsIncrement(job, k) == job.jobType = do /\ job.updater = <<"incr", k>>

Increments(k) == {i \in 1..Len(hist) : IsIncrement(hist[i].job, k)}

\* C17: Do is atomic: when the only jobs that wrote the entry of a key are
\* N read-increment-write transformations, issued from several goroutines at
\* once, the counter under the key is N; and every Do that returned handed
\* back the result of the transformation (true) with success = true.
C17_DoAtomic ==
  /\ \A k \in Keys :
       (\A i \in 1..Len(hist) : Keeps(hist[i].job, k) \/ IsIncrement(hist[i].job, k)) =>
         IF Increments(k) = {} THEN k \notin DOMAIN safe
         ELSE k \in DOMAIN safe /\ safe[k] = Cardinality(Increments(k))
  /\ \A c \in Clients :
       (method[c] = "Do" /\ call[c] = "none" /\ pc[c] = "idle") => ret[c] = <<1, TRUE>>

\* Three increments of one key, two of them in flight together from two
\* goroutines, have all returned and the counter is 3.
C17_Witness ==
  \E k \in Keys :
    /\ Len(hist) = 3 /\ Increments(k) = {1, 2, 3}
    /\ \A i \in 1..3 : hist[i].returned /\ hist[i].ret = <<1, TRUE>>
    /\ hist[1].job.return_channel # hist[2].job.return_channel
    /\ safe[k] = 3

\* C18: the mapping Finish hands back: the finish job is the last the worker
\* executed, the mapping handed back is the sequential result of all the jobs
\* executed before it (so of every call that returned before Finish was
\* issued), and it is still the mapping: nothing has changed it since.
C18_HandedBack ==
  handed # <<>> =>
    /\ finished /\ closed
    /\ hist[Len(hist)].job.jobType = finish
    /\ \A i \in 1..(Len(hist) - 1) : hist[i].job.jobType # finish
    /\ handed[1] = Replay(Len(hist) - 1)
    /\ handed[1] = safe

\* Finish handed back a mapping with an entry, and an operation issued after
\* that has been stopped at the closed channel without touching the mapping.
C18_Witness ==
  /\ handed # <<>> /\ handed[1] # EmptyMap
  /\ \E c \in Clients : afterClose[c] /\ Mutates(newJob[c]) /\ call[c] = "panicked"

(***************************************************************************)
(* The windowed cache.                                                     *)
(***************************************************************************)
\* A route registered with a positive duration (CacheURL)
Windowed(r) == routes[r] > 0 /\ routes[r] # Forever

\* Every request of the run for the route of p has been for p
OnlyPath(p) == \A q \in Paths \ {p} : RouteOf(q) = RouteOf(p) => started[q] = 0

\* C6: the Stale -> Fresh -> Stale cycle. With requests one at a time to one
\* path of a route with a positive duration and a handler that succeeds: the
\* signal is held by the seeding goroutine, a blocked sender or a timer; the
\* request that took the receive invoked the handler and its body is returned
\* and cached; a default-case request that found a body cached invoked nothing
\* and returned it, and it is the body of the last invocation.
C6_StaleFreshCycle ==
  \A p \in Paths :
    (serial /\ Windowed(RouteOf(p)) /\ OnlyPath(p) /\ fails = 0) =>
      /\ nSpawned[RouteOf(p)] + nReady[RouteOf(p)] + nTimers[RouteOf(p)] = 1
      /\ \A c \in Clients :
           path[c] = p =>
             /\ branch[c] = "stale" =>
                  /\ inv[c] = prods[p] /\ inv[c] > 0
                  /\ tok[c] > 0
                  /\ pc[c] = "done" =>
                       resp[c] = Body(inv[c], StatusOK) /\ Cached(p) = resp[c]
             /\ (branch[c] = "fresh" /\ seen[c] # 0 /\ pc[c] = "done") =>
                  /\ inv[c] = 0
                  /\ resp[c] = seen[c] /\ Cached(p) = seen[c]
                  /\ seen[c] = Body(prods[p], StatusOK)
                  /\ nReady[RouteOf(p)] = 0 \/ epoch[RouteOf(p)] > tok[c]

\* The whole cycle in four requests: the first took the signal and cached R1,
\* the second was answered R1 from the cache, the timer fired, the third took
\* the refilled signal and cached R2, the fourth is answered R2.
C6_Witness ==
  \E p \in Paths, c \in Clients :
    /\ serial /\ Windowed(RouteOf(p)) /\ OnlyPath(p) /\ fails = 0
    /\ started[p] = 4 /\ prods[p] = 2 /\ epoch[RouteOf(p)] = 2
    /\ lastHit[p] = Body(1, StatusOK)
    /\ path[c] = p /\ pc[c] = "done" /\ branch[c] = "fresh" /\ inv[c] = 0
    /\ resp[c] = Body(2, StatusOK)

\* C7: a failed production is never cached: every body in the cache was
\* returned with a success status, and no request is answered from the cache
\* with the body of a failed invocation.
C7_FailureNotCached ==
  /\ \A p \in DOMAIN safe : BodyStatus(safe[p]) = StatusOK
  /\ \A c \in Clients :
       (pc[c] = "done" /\ inv[c] = 0) => BodyStatus(resp[c]) = StatusOK

\* C8: cache forever: with requests one at a time, the handler of a route
\* registered with a negative duration is invoked at most once for a path, and
\* once when the first request for the path has been answered.
C8_ForeverOnce ==
  \A p \in Paths :
    (serial /\ routes[RouteOf(p)] = Forever /\ OnlyPath(p) /\ fails = 0) =>
      /\ prods[p] <= 1
      /\ (started[p] > 1 => prods[p] = 1)

\* C9: a route with duration 0 passes through: every request for it invoked
\* the handler once (the N-th request the N-th invocation when they come one at
\* a time), it returns the body and the status of its own invocation, and the
\* signal of the route was never seeded, never received from, and no timer was
\* armed for it.
C9_ZeroPassthrough ==
  \A p \in Paths :
    routes[RouteOf(p)] = 0 =>
      /\ prods[p] = started[p]
      /\ nSpawned[RouteOf(p)] = 0 /\ nReady[RouteOf(p)] = 0
      /\ nTimers[RouteOf(p)] = 0 /\ epoch[RouteOf(p)] = 0
      /\ \A c \in Clients :
           path[c] = p =>
             /\ branch[c] = "plain" /\ inv[c] > 0 /\ tok[c] = 0
             /\ serial => inv[c] = started[p]
             /\ pc[c] = "done" =>
                  status[c] \in Statuses /\ resp[c] = Body(inv[c], status[c])

\* Three requests one after the other to a route with duration 0; the third
\* is answered with its own, failed, invocation.
C9_Witness ==
  \E p \in Paths, c \in Clients :
    /\ serial /\ routes[RouteOf(p)] = 0
    /\ started[p] = 3 /\ prods[p] = 3
    /\ path[c] = p /\ pc[c] = "done" /\ inv[c] = 3
    /\ status[c] = StatusError /\ resp[c] = Body(3, StatusError)

\* C10: single winner per expiry. The signal of a route is held once; of the
\* requests that reached the select of one route in the same epoch of its
\* signal at most one took the receive; a request that took the default found
\* no sender ready, issued Find, and invoked the handler only when Find gave
\* no string.
C10_SingleWinner ==
  /\ \A r \in Routes :
       /\ nReady[r] \in {0, 1}
       /\ Seeded(routes[r]) => nSpawned[r] + nReady[r] + nTimers[r] = 1
  /\ \A c, d \in Clients :
       ( /\ c # d /\ InGetResponse(c) /\ InGetResponse(d)
         /\ RouteOf(path[c]) = RouteOf(path[d]) /\ tok[c] = tok[d] )
         => ~(branch[c] = "stale" /\ branch[d] = "stale")
  /\ \A c \in Clients :
       branch[c] = "fresh" =>
         /\ pc[c] \in {"fresh_find", "fresh_handler", "fresh_insert", "done"}
         /\ tok[c] = epoch[RouteOf(path[c])] => nReady[RouteOf(path[c])] = 0
         /\ pc[c] = "fresh_handler" => ~IsString(rd[c].value)
         /\ inv[c] # 0 => ~ok[c]
         /\ (pc[c] \in {"fresh_insert", "done"} /\ inv[c] = 0) => ok[c]

\* Two requests for one path race for the signal: one took the receive and
\* is in the handler, the other took the default, missed, and is in the
\* handler too.
C10_Witness ==
  \E c, d \in Clients :
    /\ c # d /\ ~serial
    /\ path[c] = path[d] /\ tok[c] = tok[d] /\ tok[c] > 0
    /\ branch[c] = "stale" /\ pc[c] = "stale_handler"
    /\ branch[d] = "fresh" /\ pc[d] = "fresh_handler"

\* C11: a failure status reaches the requester unchanged: a request that is
\* answered with the body of an invocation that returned a failure status,
\* by that invocation itself or from the cache, returns that status.
C11_FailureStatusUnchanged ==
  \A c \in Clients :
    (pc[c] = "done" /\ BodyStatus(resp[c]) # StatusOK) => status[c] = BodyStatus(resp[c])

\* C12: the signal is never consumed for good: for a route with a positive
\* duration, whenever a request has taken the signal (a timer is armed for the
\* route), also when the handler it invoked returned a failure status, a
\* sender becomes ready on route.timeout again.
C12_SignalRefilled ==
  \A p \in Paths :
    ( /\ Windowed(RouteOf(p))
      /\ \/ nTimers[RouteOf(p)] > 0
         \/ \E c \in Clients :
              /\ path[c] = p /\ branch[c] = "stale"
              /\ pc[c] = "stale_insert" /\ status[c] # StatusOK )
      ~> (nReady[RouteOf(p)] > 0)

\* A request took the signal, its handler failed, and the signal is ready
\* again for the next request.
C12_Witness ==
  \E c \in Clients :
    /\ Windowed(RouteOf(path[c])) /\ branch[c] = "stale" /\ pc[c] = "done"
    /\ status[c] = StatusError
    /\ epoch[RouteOf(path[c])] = 2 /\ nReady[RouteOf(path[c])] = 1

\* C19: write-through for duration 0: when a request for a route with
\* duration 0 has been answered, the body its invocation returned is in
\* cache_map under the request path.
C19_ZeroWriteThrough ==
  \A c \in Clients :
    (pc[c] = "done" /\ routes[RouteOf(path[c])] = 0) =>
      /\ inv[c] > 0
      /\ path[c] \in DOMAIN safe /\ safe[path[c]] = resp[c]

\* C20: a route registered with a negative duration: its duration is the
\* 30 * 12 * 30 hours of makeurl, its signal is made ready once, by the
\* goroutine makeurl starts, and is never refilled after that, so that at most
\* one request of the route takes the receive.
C20_ForeverArmedOnce ==
  \A r \in Routes :
    routes[r] = Forever =>
      /\ nSpawned[r] + nReady[r] + nTimers[r] = 1
      /\ epoch[r] <= 1
      /\ \A c \in Clients :
           (InGetResponse(c) /\ RouteOf(path[c]) = r /\ branch[c] = "stale") => tok[c] = 1

\* The worker runs the find case for the request goroutine c and replies
FindServed(c) ==
  /\ pc[c] = "fresh_find" /\ wpc = "exec" /\ wjob.return_channel = c
  /\ wjob.jobType = find /\ wpc' = "recv"

\* C21: fresh hit: a request that found no sender ready on route.timeout and
\* whose Find found a string under its path returns exactly that string, the
\* one the mapping held under the path when the worker ran the Find, and does
\* not invoke the handler.
C21_FreshHit ==
  /\ [](\A c \in Clients :
          (branch[c] = "fresh" /\ ok[c]) =>
            /\ pc[c] \in {"fresh_insert", "done"}
            /\ inv[c] = 0
            /\ IsString(resp[c])
            /\ (pc[c] = "fresh_insert" /\ call[c] \in {"send", "recv"}) =>
                 resp[c] = rd[c].value)
  /\ [][\A c \in Clients :
          /\ FindServed(c) =>
               /\ wjob.key = path[c]
               /\ rd'[c].value = Cached(path[c])
               /\ rd'[c].success = (path[c] \in DOMAIN safe)
          /\ (pc[c] = "fresh_find" /\ pc'[c] # "fresh_find" /\ Cached(path[c]) # 0
                /\ rd[c].value = Cached(path[c])) =>
               /\ pc'[c] = "fresh_insert" /\ ok'[c]
               /\ resp'[c] = rd[c].value
               /\ prods' = prods /\ inv'[c] = 0
          /\ (pc[c] = "fresh_insert" /\ ok[c]) =>
               /\ pc'[c] \in {"fresh_insert", "done"}
               /\ resp'[c] = resp[c] /\ inv'[c] = 0 /\ ok'[c]]_vars

\* While another request of the path is in its handler, a request took the
\* default case, found the body of the first invocation cached and is answered
\* with it.
C21_Witness ==
  \E c, d \in Clients :
    /\ c # d /\ path[c] = path[d]
    /\ pc[d] \in {"stale_handler", "fresh_handler"}
    /\ pc[c] = "done" /\ branch[c] = "fresh" /\ ok[c] /\ inv[c] = 0
    /\ resp[c] = Body(1, StatusOK) /\ Cached(path[c]) = resp[c]
    /\ prods[path[c]] = 2

\* The request goroutine c has taken the default case and Find gave no string
FreshMiss(c) == branch[c] = "fresh" /\ ~ok[c] /\ pc[c] \in {"fresh_handler", "fresh_insert", "done"}

\* The state of the signal of the routes: seeding goroutines, blocked senders
\* and timers
Signal == <<nSpawned, nReady, nTimers, epoch>>

\* A step of the request goroutine c, or of the worker on a job of c
StepOf(c) == pc'[c] # pc[c] \/ call'[c] # call[c]

\* The steps of a request in the default case leave the signal alone: they
\* receive nothing from route.timeout and start no timer
FreshLeavesSignal ==
  \A c \in Clients : ((branch[c] = "fresh" \/ branch'[c] = "fresh") /\ StepOf(c)) => Signal' = Signal

\* The worker runs the insert case for the request goroutine c and replies
InsertServed(c) ==
  /\ pc[c] = "fresh_insert" /\ wpc = "exec" /\ wjob.return_channel = c
  /\ wjob.jobType = insert /\ wpc' = "recv"

\* C22 as amended: fresh miss: a request that found no sender ready and no
\* string under its path invokes the handler, returns the body and the status
\* of that invocation, and, unless the status is 404, stores the body under
\* the path with Insert before it returns; its steps leave the signal of the
\* route and its timers as they are.
C22_FreshMissStoresUnless404 ==
  /\ [](\A c \in Clients :
          FreshMiss(c) =>
            /\ inv[c] > 0
            /\ pc[c] \in {"fresh_insert", "done"} =>
                 status[c] \in Statuses /\ resp[c] = Body(inv[c], status[c])
            /\ pc[c] = "fresh_insert" =>
                 status[c] # StatusNotFound /\ newJob[c] = InsertJob(c, path[c], resp[c])
            /\ pc[c] = "done" =>
                 IF status[c] = StatusNotFound THEN method[c] = "Find"
                 ELSE method[c] = "Insert" /\ rd[c].success)
  /\ [][\A c \in Clients :
          (InsertServed(c) /\ ~ok[c]) =>
            path[c] \in DOMAIN safe' /\ safe'[path[c]] = resp[c]]_vars
  /\ [][FreshLeavesSignal]_vars

\* C22: fresh miss: a request that found no sender ready and no string under
\* its path invokes the handler, stores the body under the path with Insert
\* and returns it; its steps leave the signal of the route and its timers as
\* they are.
C22_FreshMiss ==
  /\ [](\A c \in Clients :
          FreshMiss(c) =>
            /\ inv[c] > 0
            /\ pc[c] \in {"fresh_insert", "done"} =>
                 status[c] \in Statuses /\ resp[c] = Body(inv[c], status[c])
            /\ pc[c] = "fresh_insert" => newJob[c] = InsertJob(c, path[c], resp[c])
            /\ pc[c] = "done" => method[c] = "Insert" /\ rd[c].success)
  /\ [][FreshLeavesSignal]_vars

\* The first request of a route cached forever came before the seeding
\* goroutine reached its send: it missed, invoked the handler, stored the body
\* and is about to return it, and the seed is still to come.
C22_Witness ==
  \E c \in Clients :
    /\ FreshMiss(c) /\ pc[c] = "done" /\ status[c] = StatusOK
    /\ routes[RouteOf(path[c])] = Forever
    /\ resp[c] = Body(1, StatusOK) /\ Cached(path[c]) = resp[c]
    /\ nSpawned[RouteOf(path[c])] = 1 /\ nTimers[RouteOf(path[c])] = 0
    /\ epoch[RouteOf(path[c])] = 0

\* C23: a request never waits for the rearm timer. With no assumption on the
\* timers (a timer may never fire), a request that took the receive reaches
\* its return once its handler and its Insert have returned; it then returns
\* the body and status of its own invocation; and the firing of a timer and
\* the refill are steps of no request.
C23_NeverWaitsForTimer ==
  /\ \A c \in Clients : (branch[c] = "stale") ~> (pc[c] = "done")
  /\ [](\A c \in Clients :
          (branch[c] = "stale" /\ pc[c] \in {"stale_insert", "done"}) =>
            inv[c] > 0 /\ resp[c] = Body(inv[c], status[c]))
  /\ [][\A c \in Clients :
          /\ (pc[c] = "stale_insert" /\ call[c] = "ret") => ENABLED InsertReturn(c)
          /\ (\E r \in Routes : nTimers'[r] < nTimers[r] \/ epoch'[r] > epoch[r])
               => ~StepOf(c)]_vars

\* The timer a request armed is still asleep after the request has been
\* answered and its goroutine has ended.
C23_Witness ==
  \E r \in Routes :
    /\ nTimers[r] = 1 /\ nReady[r] = 0 /\ epoch[r] = 1
    /\ \A c \in Clients : pc[c] = "idle"
    /\ reqs = 1 /\ \E p \in Paths : prods[p] = 1 /\ Cached(p) = Body(1, StatusOK)

\* C24: arrival order. The worker executes the jobs in the order in which
\* they were handed to it: the job it dequeued is the next it executes, and
\* the mapping is the result of the executed jobs applied in that order. A
\* call that had returned when another was issued has its place in that order
\* before the other; so a Find issued after an Insert on its key returned,
\* with nothing issued on the key since, gives the inserted value.
C24_ArrivalOrder ==
  /\ [](safe = Replay(Len(hist)))
  /\ [](\A c \in Clients :
          (method[c] # "none" /\ pc[c] = "idle") =>
            /\ prior[c] \subseteq 1..Len(hist)
            /\ call[c] \in {"ret", "none"} => \A i \in prior[c] : i < LastExec(c)
            /\ (method[c] = "Find" /\ call[c] = "none" /\ expect[c] # <<>>) =>
                 ret[c][1] = expect[c][1])
  /\ [][(wpc = "recv" /\ wpc' = "exec") =>
          /\ \E c \in Clients : call[c] = "send" /\ wjob' = newJob[c] /\ call'[c] = "recv"
          /\ hist' = hist /\ safe' = safe]_vars
  /\ [][(wpc = "exec" /\ wpc' = "recv") =>
          /\ Len(hist') = Len(hist) + 1
          /\ \A i \in 1..Len(hist) : hist'[i] = hist[i]
          /\ hist'[Len(hist')].job = wjob
          /\ safe' = SeqApply(safe, wjob)]_vars

\* An Insert of one goroutine had returned when another goroutine issued a
\* Find on its key; a third job was executed between the two, and the Find
\* returned the inserted value.
C24_Witness ==
  \E c \in Clients :
    /\ Len(hist) = 3 /\ method[c] = "Find" /\ call[c] = "none"
    /\ 1 \in prior[c] /\ LastExec(c) = 3
    /\ hist[1].job.jobType = insert /\ hist[1].job.return_channel # c
    /\ hist[1].job.key = hist[3].job.key /\ hist[1].job.value # Nil
    /\ hist[2].job.return_channel # c
    /\ ret[c] = <<hist[1].job.value>>

\* C25: every Insert, Delete, Find and Do issued while the worker is running
\* (no finish job processed yet) returns to its caller, given that the
\* functions passed to Do return: so no such call ends in a panic of its
\* caller, a call that has returned got the one reply the worker sent for its
\* job, and a caller that waits has its job still to be served.
C25_CallsReturn ==
  \A c \in Clients :
    ( /\ openAtIssue[c]
      /\ method[c] \in {"Insert", "Delete", "Find", "Do"}
      /\ \A d \in Clients : newJob[d].updater[1] \notin {"panics", "nested"} ) =>
      /\ call[c] # "panicked"
      /\ call[c] \in {"ret", "none"} =>
           /\ hist[LastExec(c)].job = newJob[c]
           /\ rd[c] = hist[LastExec(c)].reply
      /\ call[c] = "none" => hist[LastExec(c)].returned

\* C26: order of the Stale branch: the request consumes the signal, invokes
\* the handler, stores the body with Insert, and only then is the timer armed:
\* while the request is in its handler or waits for its Insert, no timer of
\* its route is asleep and no sender is ready on route.timeout, so the signal
\* is not refilled before the body is in the cache.
C26_TimerArmedAfterInsert ==
  \A c \in Clients :
    (branch[c] = "stale" /\ pc[c] \in {"stale_handler", "stale_insert"}) =>
      /\ nTimers[RouteOf(path[c])] = 0
      /\ nReady[RouteOf(path[c])] = 0

\* C27: bounded timers: for every route, in every reachable state, at most
\* one timer is asleep and at most one sender (the seed or a refill) is pending
\* on route.timeout, and timers and pending senders together never exceed one,
\* whatever the number and interleaving of the requests.
C27_BoundedTimers ==
  \A r \in Routes :
    /\ nTimers[r] \in {0, 1}
    /\ nSpawned[r] + nReady[r] \in {0, 1}
    /\ nSpawned[r] >= 0 /\ nReady[r] >= 0
    /\ nTimers[r] + nSpawned[r] + nReady[r] <= 1

\* Two requests of one route are in the Stale branch together, the second
\* having taken the refill of the first one's timer, and one timer is asleep.
C27_Witness ==
  \E r \in Routes, c, d \in Clients :
    /\ c # d /\ ~serial /\ Windowed(r)
    /\ RouteOf(path[c]) = r /\ RouteOf(path[d]) = r
    /\ branch[c] = "stale" /\ branch[d] = "stale"
    /\ pc[c] = "stale_handler" /\ pc[d] = "stale_handler"
    /\ epoch[r] = 3 /\ nTimers[r] = 1 /\ nReady[r] = 0

\* The request goroutines c and d serve the same path and both took the
\* receive of the select
BothStale(c, d) ==
  /\ c # d /\ path[c] # 0 /\ path[c] = path[d]
  /\ branch[c] = "stale" /\ branch[d] = "stale"

FirstOfRoute(c) ==
  /\ path[c] # 0
  /\ started[path[c]] = 1
  /\ OnlyPath(path[c])

\* C29: seeding: the signal of a route with a non-zero duration is seeded at
\* construction, so that the first request to the route takes the receive
\* (the Stale branch), invokes the handler, and has put the body into the
\* cache when it returns.
C29_FirstRequestSeeded ==
  \A c \in Clients :
    (FirstOfRoute(c) /\ routes[RouteOf(path[c])] # 0) =>
      /\ branch[c] = "stale"
      /\ inv[c] = 1
      /\ pc[c] = "done" => (path[c] \in DOMAIN safe /\ resp[c] = Body(1, status[c]))

\* The path of a request that matches a route registered with duration zero
ZeroRouted(p) == p # 0 /\ routes[RouteOf(p)] = 0

\* The request goroutines that serve a route with duration zero make no call
\* on cache_map
PlainIdle(c) ==
  branch[c] = "plain" => (call[c] = "none" /\ method[c] = "none" /\ newJob[c] = NoJob)

\* C30: a route whose duration is zero is never cached: a request for it
\* issues no operation on cache_map, its steps leave the mapping unchanged,
\* and no path of the route ever has an entry.
C30_ZeroNeverCached ==
  /\ [](\A c \in Clients : ZeroRouted(path[c]) => (branch[c] = "plain" /\ PlainIdle(c)))
  /\ [](\A p \in Paths : ZeroRouted(p) => p \notin DOMAIN safe)
  /\ [][\A c \in Clients :
          (StepOf(c) /\ (ZeroRouted(path[c]) \/ ZeroRouted(path'[c]))) =>
            /\ safe' = safe /\ wjob' = wjob /\ wpc' = wpc
            /\ call'[c] = "none"]_vars

\* A request for a route with duration zero is about to return a body while
\* the mapping holds an entry of another route only.
C30_Witness ==
  \E c \in Clients :
    /\ ZeroRouted(path[c]) /\ pc[c] = "done" /\ status[c] = StatusOK
    /\ resp[c] = Body(2, StatusOK)
    /\ path[c] \notin DOMAIN safe /\ safe # EmptyMap

\* The route whose pattern matches the path p
Matches(r, p) == p # 0 /\ r = ((p - 1) % Len(routes)) + 1

\* The signal of the route r: its seeding goroutine, blocked senders and timers
SignalOf(r) == <<nSpawned[r], nReady[r], nTimers[r], epoch[r]>>

\* C31: route independence: every route has its own signal, created when the
\* route is registered: a step of a request handled for one route leaves the
\* seeding goroutine, the senders, the timers and the epoch of every other
\* route as they are, and a request that took the receive took it from the
\* signal of its own route.
C31_RouteIndependence ==
  /\ [](\A c \in Clients, r \in Routes :
          (Matches(r, path[c]) /\ branch[c] = "stale") => (tok[c] > 0 /\ tok[c] <= epoch[r]))
  /\ [][\A c \in Clients, r \in Routes :
          (StepOf(c) /\ (path[c] # 0 \/ path'[c] # 0)
             /\ ~Matches(r, path[c]) /\ ~Matches(r, path'[c]))
            => SignalOf(r)' = SignalOf(r)]_vars

\* A request of the CacheURL route has taken the second refill of its signal
\* and armed a timer, while the seed of the route cached forever is still
\* waiting for its first receiver.
C31_Witness ==
  \E c \in Clients :
    /\ Matches(1, path[c]) /\ Windowed(1) /\ routes[2] = Forever
    /\ branch[c] = "stale" /\ tok[c] = 2 /\ nTimers[1] = 1
    /\ nReady[2] = 1 /\ epoch[2] = 1 /\ nTimers[2] = 0

\* The entries of the keys other than k are the same in the mappings m and n
SameBut(m, n, k) ==
  /\ DOMAIN m \ {k} = DOMAIN n \ {k}
  /\ \A x \in DOMAIN m \ {k} : m[x] = n[x]

\* C32: frame of the map operations: the find case changes nothing in the
\* mapping; the insert case and the remove case of a key change at most the
\* entry of that key and leave the presence and the value of every other key
\* as they were.
C32_MapFrame ==
  /\ [][WorkerRuns(find) => safe' = safe]_vars
  /\ [][WorkerRuns(insert) => SameBut(safe, safe', wjob.key)]_vars
  /\ [][WorkerRuns(remove) => SameBut(safe, safe', wjob.key)]_vars
  /\ [][(wpc = "recv" \/ wpc' # "recv") => safe' = safe]_vars

\* With an entry under another key in the mapping, a key was inserted, found
\* and deleted again; the other entry is as it was.
C32_Witness ==
  \E k, x \in Keys :
    /\ k # x /\ Len(hist) = 3 /\ calls = 3
    /\ hist[1].job.jobType = insert /\ hist[1].job.key = x /\ hist[1].job.value # Nil
    /\ hist[2].job.jobType = insert /\ hist[2].job.key = k
    /\ hist[3].job.jobType = remove /\ hist[3].job.key = k
    /\ DOMAIN safe = {x} /\ safe[x] = hist[1].job.value

(***************************************************************************)
(* lockMap (src/unnamed/part_003): the map guarded by a mutex. A method    *)
(* holds the lock from its first statement to its return, so it acts on    *)
(* the mapping in one step.                                                *)
(***************************************************************************)
\* NewLockMap: (*m).safe = make(map[interface{}]interface{})
NewLockMap == [x \in {} |-> Nil]

\* lockMap.Insert: m.safe[key] = value; return true
lockMapInsert(m, key, value) ==
  [safe |-> [x \in DOMAIN m \cup {key} |-> IF x = key THEN value ELSE m[x]],
   ret |-> <<TRUE>>]

\* lockMap.Find: val, ok := m.safe[key]; return val, ok
lockMapFind(m, key) ==
  [safe |-> m,
   ret |-> IF key \in DOMAIN m THEN <<m[key], TRUE>> ELSE <<Nil, FALSE>>]

\* The method of lockMap that corresponds to a job of the safeMap
lockMapCall(m, job) ==
  IF job.jobType = insert THEN lockMapInsert(m, job.key, job.value)
  ELSE lockMapFind(m, job.key)

\* The lockMap after the first n operations of the run were made on it
RECURSIVE lockMapAfter(_)
lockMapAfter(n) ==
  IF n = 0 THEN NewLockMap ELSE lockMapCall(lockMapAfter(n - 1), hist[n].job).safe

\* The operations of the run so far are calls of Insert and Find
InsertsAndFinds == \A i \in 1..Len(hist) : hist[i].job.jobType \in {insert, find}

\* C33: the two maps are interchangeable on Insert and Find: for every
\* sequence of Insert and Find operations, made on the safeMap and, in the
\* order the worker executed them, on a lockMap, every Insert returned the
\* same success flag, every Find returned the same value, and the two
\* mappings are the same after each operation.
C33_LockMapEquivalent ==
  InsertsAndFinds =>
    /\ safe = lockMapAfter(Len(hist))
    /\ \A i \in 1..Len(hist) :
         hist[i].returned =>
           hist[i].ret[1] = lockMapCall(lockMapAfter(i - 1), hist[i].job).ret[1]

\* An Insert under a key, a Find of the key that gave the inserted value and
\* a Find of another key that gave nil have returned on the safeMap.
C33_Witness ==
  /\ InsertsAndFinds /\ Len(hist) = 3
  /\ \A i \in 1..3 : hist[i].returned
  /\ hist[1].job.jobType = insert /\ hist[1].job.value # Nil
  /\ hist[2].job.jobType = find /\ hist[2].job.key = hist[1].job.key
  /\ hist[2].ret = <<hist[1].job.value>>
  /\ hist[3].job.jobType = find /\ hist[3].job.key # hist[1].job.key
  /\ hist[3].ret = <<Nil>>

\* C34: a Fresh-branch request never replaces a newer cached body by an older
\* one: when the worker runs the Insert of a default-case request that was
\* answered from the cache, the body it stores under the path is not older
\* than the body the path holds.
C34_FreshKeepsNewer ==
  [][\A c \in Clients :
       (InsertServed(c) /\ ok[c] /\ path[c] \in DOMAIN safe) =>
         BodyId(safe'[path[c]]) >= BodyId(safe[path[c]])]_vars

\* C35: single flight per path: for a route with a non-zero duration, two
\* invocations of the handler for one path are never in progress together,
\* and of the requests that reached the select in one epoch of the signal at
\* most one invokes the handler for a given path.
C35_SingleFlight ==
  \A c, d \in Clients :
    ( /\ c # d /\ path[c] # 0 /\ path[c] = path[d]
      /\ routes[RouteOf(path[c])] # 0 ) =>
      /\ ~(pc[c] \in {"stale_handler", "fresh_handler"}
             /\ pc[d] \in {"stale_handler", "fresh_handler"})
      /\ tok[c] = tok[d] => (inv[c] = 0 \/ inv[d] = 0)

\* C36: while the worker of cache_map is running, getResponse reaches neither
\* panic("Inserting into cache_map failure!") nor panic("unreachable"): every
\* Insert it issues is answered with success = true, no safeMap call of a
\* request panics, and every request that entered getResponse reaches its
\* return.
C36_NoPanicInGetResponse ==
  /\ [](\A c \in Clients :
          /\ pc[c] # "panicked" /\ call[c] # "panicked"
          /\ (pc[c] \in {"stale_insert", "fresh_insert"} /\ call[c] = "ret") =>
               (method[c] = "Insert" /\ rd[c].success)
          /\ InGetResponse(c) =>
               (pc[c] \in {"plain_handler", "stale_handler", "stale_insert", "fresh_find",
                           "fresh_handler", "fresh_insert", "done"}
                  /\ Running /\ ~closed))
  /\ \A c \in Clients : InGetResponse(c) ~> (pc[c] = "done")

\* Requests of the three ways through getResponse have been answered: one
\* took the receive and inserted, one was answered from the cache and
\* inserted, and one of the route with duration zero is about to return.
C36_Witness ==
  \E c \in Clients :
    /\ reqs = 3 /\ pc[c] = "done" /\ branch[c] = "plain"
    /\ \E p \in Paths : lastHit[p] # 0 /\ prods[p] = 1 /\ Cached(p) = lastHit[p]

\* The goroutine c is blocked in the send or in the receive of a method
Blocked(c) == call[c] \in {"send", "recv"}

\* C37: re-entrancy deadlock: once the worker runs a function passed to Do
\* that calls a method of the same safeMap, it never gets out of it: it
\* receives no job and executes none, the mapping and the channel stay as they
\* are, the caller of the outer Do stays blocked in its receive, and every
\* caller that is blocked in a method, also one that called later, stays
\* blocked.
C37_ReentrantDoBlocks ==
  /\ [](wpc = "nested" =>
          /\ wjob.jobType = do /\ ~closed
          /\ method[wjob.return_channel] = "Do" /\ call[wjob.return_channel] = "recv")
  /\ [][wpc = "nested" =>
          /\ wpc' = "nested" /\ wjob' = wjob
          /\ safe' = safe /\ Len(hist') = Len(hist) /\ closed' = closed
          /\ \A c \in Clients : Blocked(c) => call'[c] = call[c]]_vars

\* The worker is inside the function of a Do of one goroutine; a call that
\* was answered before has returned, and a call another goroutine issued
\* after the Do was taken up waits in its send.
C37_Witness ==
  \E c, d \in Clients :
    /\ c # d /\ wpc = "nested" /\ wjob.return_channel = c
    /\ call[c] = "recv" /\ call[d] = "send" /\ calls = 3
    /\ Len(hist) = 1 /\ hist[1].returned /\ 1 \in prior[d]

\* The body b was returned by an invocation of the handler made for path p
ProducedFor(b, p) ==
  /\ BodyId(b) \in 1..prods[p]
  /\ BodyStatus(b) \in Statuses

\* C38: the contents of the cache come only from the handler: every body
\* stored in cache_map under a path was returned by an earlier invocation of
\* the handler for a request with that path; and every Insert a request issues
\* is under the request's own path, with the body of its own invocation or the
\* body Find gave it for that path.
C38_OnlyProduced ==
  /\ [](\A p \in DOMAIN safe : p \in Paths /\ ProducedFor(safe[p], p))
  /\ [](\A c \in Clients :
          pc[c] \in {"stale_insert", "fresh_insert"} =>
            /\ newJob[c].jobType = insert
            /\ newJob[c].key = path[c] /\ newJob[c].value = resp[c]
            /\ ProducedFor(resp[c], path[c])
            /\ inv[c] > 0 => resp[c] = Body(inv[c], status[c]))
  /\ [][\A c \in Clients :
          (InGetResponse(c) /\ wpc = "exec" /\ wjob.return_channel = c /\ wpc' = "recv") =>
            /\ wjob.key = path[c]
            /\ \A q \in DOMAIN safe' : q # path[c] => (q \in DOMAIN safe /\ safe'[q] = safe[q])]_vars

\* Bodies of two paths of one route and of a path of another route are in
\* the cache, each under its own path.
C38_Witness ==
  /\ DOMAIN safe = Paths
  /\ \A p \in Paths : prods[p] = 1 /\ BodyId(safe[p]) = 1
  /\ \E p \in Paths : BodyStatus(safe[p]) = StatusError

\* C39: status of a cache hit: a default-case request that is answered with
\* a body it found in the cache returns, with the body, the status the handler
\* returned when it produced that body.
C39_HitStatus ==
  \A c \in Clients :
    (pc[c] = "done" /\ branch[c] = "fresh" /\ ok[c]) => status[c] = BodyStatus(resp[c])

====
